---- MODULE Spec2Model ----
(***************************************************************************)
(* Model of calendar.py: the credential cache handled by authenticate()    *)
(* and the query adapter get_calendar_events() / query_api().              *)
(*                                                                         *)
(* One tool invocation is the sequence                                     *)
(*   Invoke -> Authenticate -> Build -> Query -> Return                    *)
(* and any step that raises ends it in pc = "failed".  The token file, the *)
(* client-secret file and the clock are the environment that outlives an   *)
(* invocation.                                                             *)
(***************************************************************************)
EXTENDS Integers, Sequences, FiniteSets, TLC

\* ---------------------------------------------------------------- bounds
MaxTime  == 1        \* the clock runs over 0..MaxTime
MaxTTL   == 1        \* lifetime granted to a fresh access token, 1..MaxTTL
MaxItems == 2        \* longest 'items' list of a provider response

\* ------------------------------------------------------------- constants
CREDENTIALS_FILE == "credentials-demo.json"
TOKEN_FILE       == "token.json"

\* ------------------------------------------------------ values and shapes
PyNone   == "<None>"                 \* Python's None where a string may stand
NoToken  == "<no-token>"             \* Credentials.token is None
NoExpiry == -1                       \* Credentials.expiry is None
NoCreds  == [none |-> TRUE]          \* creds = None
NoFile   == [file |-> "absent"]      \* os.path.exists(TOKEN_FILE) is False
Corrupt  == [file |-> "corrupt"]     \* a token file the loader rejects

Tokens   == {"tokA", "tokB"}
Expiries == {NoExpiry} \cup (0 .. MaxTime + MaxTTL)

\* The Credentials object as far as authenticate() looks at it.
CredsSet == [token : Tokens \cup {NoToken}, refresh_token : BOOLEAN, expiry : Expiries]

Dates     == {"2024-01-01", "2024-01-02"}
DateTimes == {"2024-01-01T09:00:00Z"}
AllDays   == {"2024-01-02"}
Summaries == {"Standup"}

\* e["start"] of a provider record: either, both or none of dateTime / date.
StartDicts ==
    {[timeZone |-> "UTC"]}
    \cup {[timeZone |-> "UTC", dateTime |-> dt] : dt \in DateTimes}
    \cup {[timeZone |-> "UTC", date |-> d] : d \in AllDays}
    \cup {[timeZone |-> "UTC", dateTime |-> dt, date |-> d] : dt \in DateTimes, d \in AllDays}

\* A provider record, with or without a summary.
Items ==
    {[start |-> s] : s \in StartDicts}
    \cup {[start |-> s, summary |-> m] : s \in StartDicts, m \in Summaries}

ItemSeqs == UNION {[1..n -> Items] : n \in 0..MaxItems}

\* The body of an events-list response, with or without the 'items' field.
Responses ==
    {[kind |-> "calendar#events"]}
    \cup {[kind |-> "calendar#events", items |-> s] : s \in ItemSeqs}

NoRequest  == [none |-> TRUE]
NoResponse == [none |-> TRUE]

\* dict.get(key, default)
Get(d, k, default) == IF k \in DOMAIN d THEN d[k] ELSE default

\* ------------------------------------------------- credential properties
\* creds.expired: an expiry is set and has been reached.
Expired(c, t) == c.expiry # NoExpiry /\ t >= c.expiry

\* creds.valid: holds an access token and is not expired.
Valid(c, t) == c.token # NoToken /\ ~Expired(c, t)

\* line 28-29: creds stays None unless the token file exists.
Loaded(file) == IF file = NoFile THEN NoCreds ELSE file

\* line 31: `not creds or not creds.valid`
NeedsAuthAlways(c, t) == TRUE
NeedsAuth(c, t) == c = NoCreds \/ ~Valid(c, t)

\* line 32: `creds and creds.expired and creds.refresh_token`
CanRefreshNoToken(c, t) == c # NoCreds /\ Expired(c, t)
CanRefresh(c, t) == c # NoCreds /\ Expired(c, t) /\ c.refresh_token

\* line 33: the credential after a successful refresh exchange.
Refreshed(c, tok, ttl, t) == [c EXCEPT !.token = tok, !.expiry = t + ttl]

\* line 39: the credential a successful authorization flow returns.
FlowCredsStale(tok, rt, ttl, t) == [token |-> tok, refresh_token |-> rt, expiry |-> t]
FlowCreds(tok, rt, ttl, t) == [token |-> tok, refresh_token |-> rt, expiry |-> t + ttl]

\* ------------------------------------------------------------ query_api
TimeMinSwapped(sd, ed) == ed \o "T00:00:00Z"
TimeMin(sd, ed) == sd \o "T00:00:00Z"

TimeMax(sd, ed) == ed \o "T23:59:59Z"

\* lines 56-62: the arguments of service.events().list(...)
ListRequest(sd, ed) ==
    [calendarId   |-> "primary",
     timeMin      |-> TimeMin(sd, ed),
     timeMax      |-> TimeMax(sd, ed),
     singleEvents |-> TRUE,
     orderBy      |-> "startTime"]

\* lines 65-68: one provider record as an Event.
NormalizeEventDateFirst(e) ==
    [start   |-> Get(e.start, "date", Get(e.start, "dateTime", PyNone)),
     summary |-> Get(e, "summary", "No title")]
NormalizeEvent(e) ==
    [start   |-> Get(e.start, "dateTime", Get(e.start, "date", PyNone)),
     summary |-> Get(e, "summary", "No title")]

\* lines 64-70: the list comprehension over the records.
NormalizeDropUntitled(events) ==
    LET keep == SelectSeq(events, LAMBDA e : "summary" \in DOMAIN e)
    IN  [i \in 1..Len(keep) |-> NormalizeEvent(keep[i])]
Normalize(events) == [i \in 1..Len(events) |-> NormalizeEvent(events[i])]

\* line 62: .get("items", [])
ItemsOf(resp) == Get(resp, "items", <<>>)

\* ---------------------------------------------------------------- state
VARIABLES
    tokenFile,      \* content of TOKEN_FILE: NoFile, Corrupt or a credential
    secretFile,     \* CREDENTIALS_FILE exists
    now,            \* the clock
    pc,             \* position of the current get_calendar_events call
    error,          \* the step that raised, when pc = "failed"
    creds,          \* what authenticate() returned to get_calendar_events
    start_date,     \* arguments of the current call
    end_date,
    request,        \* arguments of the events-list request issued
    response,       \* body the provider answered with
    result,         \* what query_api returned
    refreshCalls,   \* creds.refresh() calls of the current invocation
    flowCalls,      \* run_local_server() calls of the current invocation
    secretReads,    \* from_client_secrets_file() calls of the current invocation
    tokenWrites,    \* writes to TOKEN_FILE of the current invocation
    listCalls,      \* events-list requests of the current invocation
    fileBefore,     \* TOKEN_FILE as authenticate() found it
    timeBefore,     \* the clock when authenticate() ran
    lastCreds       \* what the previous authenticate() returned, NoCreds if it raised

vars == <<tokenFile, secretFile, now, pc, error, creds, start_date, end_date,
          request, response, result, refreshCalls, flowCalls, secretReads,
          tokenWrites, listCalls, fileBefore, timeBefore, lastCreds>>

env      == <<secretFile, now>>
args     == <<start_date, end_date>>
queryVars == <<request, response, result, listCalls>>
authCounters == <<refreshCalls, flowCalls, secretReads, tokenWrites>>
authHist == <<fileBefore, timeBefore, lastCreds>>

Init ==
    /\ tokenFile \in {NoFile, Corrupt} \cup CredsSet
    /\ secretFile \in BOOLEAN
    /\ now = 0
    /\ pc = "idle"
    /\ error = "none"
    /\ creds = NoCreds
    /\ start_date = PyNone
    /\ end_date = PyNone
    /\ request = NoRequest
    /\ response = NoResponse
    /\ result = <<>>
    /\ refreshCalls = 0
    /\ flowCalls = 0
    /\ secretReads = 0
    /\ tokenWrites = 0
    /\ listCalls = 0
    /\ fileBefore = NoFile
    /\ timeBefore = 0
    /\ lastCreds = NoCreds

\* The chat session calls the registered tool get_calendar_events(sd, ed).
Invoke ==
    /\ pc = "idle"
    /\ \E sd \in Dates, ed \in Dates :
          /\ start_date' = sd
          /\ end_date' = ed
    /\ pc' = "auth"
    /\ error' = "none"
    /\ creds' = NoCreds
    /\ request' = NoRequest
    /\ response' = NoResponse
    /\ result' = <<>>
    /\ refreshCalls' = 0
    /\ flowCalls' = 0
    /\ secretReads' = 0
    /\ tokenWrites' = 0
    /\ listCalls' = 0
    /\ UNCHANGED <<tokenFile, env, authHist>>

\* authenticate() raised at step `step`.
AuthRaise(step) ==
    /\ pc' = "failed"
    /\ error' = step
    /\ creds' = NoCreds
    /\ lastCreds' = NoCreds

\* authenticate() returned c.
AuthReturn(c) ==
    /\ pc' = "build"
    /\ error' = "none"
    /\ creds' = c
    /\ lastCreds' = c

\* lines 33-34 when creds.refresh(Request()) raises.
RefreshFailFallsThrough ==
    /\ refreshCalls' = refreshCalls + 1
    /\ secretReads' = secretReads + 1
    /\ flowCalls' = flowCalls + 1
    /\ \E tok \in Tokens, rt \in BOOLEAN, ttl \in 1..MaxTTL :
          /\ AuthReturn(FlowCreds(tok, rt, ttl, now))
          /\ tokenFile' = FlowCreds(tok, rt, ttl, now)
    /\ tokenWrites' = tokenWrites + 1
RefreshFail ==
    /\ refreshCalls' = refreshCalls + 1
    /\ AuthRaise("refresh")
    /\ UNCHANGED <<tokenFile, flowCalls, secretReads, tokenWrites>>

\* line 33: the refresh branch.  The write of lines 40-41 belongs to the
\* else branch, so the refreshed credential is returned but not written.
RefreshBranch(c) ==
    \/ /\ refreshCalls' = refreshCalls + 1
       /\ \E tok \in Tokens, ttl \in 1..MaxTTL :
             AuthReturn(Refreshed(c, tok, ttl, now))
       /\ UNCHANGED <<tokenFile, flowCalls, secretReads, tokenWrites>>
    \/ RefreshFail

\* lines 35-41: the interactive flow branch.
FlowBranch ==
    /\ secretReads' = secretReads + 1
    /\ UNCHANGED refreshCalls
    /\ IF ~secretFile
       THEN /\ AuthRaise("secret")
            /\ UNCHANGED <<tokenFile, flowCalls, tokenWrites>>
       ELSE /\ flowCalls' = flowCalls + 1
            /\ \/ /\ AuthRaise("flow")
                  /\ UNCHANGED <<tokenFile, tokenWrites>>
               \/ /\ \E tok \in Tokens, rt \in BOOLEAN, ttl \in 1..MaxTTL :
                        /\ AuthReturn(FlowCreds(tok, rt, ttl, now))
                        /\ tokenFile' = FlowCreds(tok, rt, ttl, now)
                  /\ tokenWrites' = tokenWrites + 1

\* authenticate(), lines 25-43, called at line 88.
Authenticate ==
    /\ pc = "auth"
    /\ fileBefore' = tokenFile
    /\ timeBefore' = now
    /\ IF tokenFile = Corrupt
       THEN /\ AuthRaise("load")
            /\ UNCHANGED <<tokenFile, authCounters>>
       ELSE LET c == Loaded(tokenFile) IN
            IF ~NeedsAuth(c, now)
            THEN /\ AuthReturn(c)
                 /\ UNCHANGED <<tokenFile, authCounters>>
            ELSE IF CanRefresh(c, now)
                 THEN RefreshBranch(c)
                 ELSE FlowBranch
    /\ UNCHANGED <<env, args, queryVars>>

\* build_calendar_service(creds), line 89.
Build ==
    /\ pc = "build"
    /\ \/ /\ pc' = "query"
          /\ UNCHANGED error
       \/ /\ pc' = "failed"
          /\ error' = "build"
    /\ UNCHANGED <<tokenFile, env, creds, args, queryVars, authCounters, authHist>>

\* query_api(service, start_date, end_date), line 90.
QueryPaged ==
    /\ pc = "query"
    /\ request' = ListRequest(start_date, end_date)
    /\ \E resp \in Responses :
          /\ response' = resp
          /\ result' = Normalize(ItemsOf(resp))
          /\ listCalls' = listCalls + (IF Len(ItemsOf(resp)) = MaxItems THEN 2 ELSE 1)
          /\ pc' = "done"
          /\ UNCHANGED error
    /\ UNCHANGED <<tokenFile, env, creds, args, authCounters, authHist>>
Query ==
    /\ pc = "query"
    /\ request' = ListRequest(start_date, end_date)
    /\ listCalls' = listCalls + 1
    /\ \/ \E resp \in Responses :
             /\ response' = resp
             /\ result' = Normalize(ItemsOf(resp))
             /\ pc' = "done"
             /\ UNCHANGED error
       \/ /\ pc' = "failed"
          /\ error' = "list"
          /\ UNCHANGED <<response, result>>
    /\ UNCHANGED <<tokenFile, env, creds, args, authCounters, authHist>>

\* get_calendar_events hands the events back to the chat session.
Return ==
    /\ pc = "done"
    /\ pc' = "idle"
    /\ UNCHANGED <<tokenFile, env, error, creds, args, queryVars, authCounters, authHist>>

\* The exception leaves get_calendar_events; the session may call again.
Propagate ==
    /\ pc = "failed"
    /\ pc' = "idle"
    /\ UNCHANGED <<tokenFile, env, error, creds, args, queryVars, authCounters, authHist>>

\* Time passes.
Tick ==
    /\ now < MaxTime
    /\ now' = now + 1
    /\ UNCHANGED <<tokenFile, secretFile, pc, error, creds, args, queryVars,
                   authCounters, authHist>>

Next ==
    \/ Invoke
    \/ Authenticate
    \/ Build
    \/ Query
    \/ Return
    \/ Propagate
    \/ Tick

Spec == Init /\ [][Next]_vars

TypeOK ==
    /\ tokenFile \in {NoFile, Corrupt} \cup CredsSet
    /\ now \in 0..MaxTime
    /\ pc \in {"idle", "auth", "build", "query", "done", "failed"}
    /\ error \in {"none", "load", "secret", "refresh", "flow", "build", "list"}
    /\ creds \in {NoCreds} \cup CredsSet

\* ------------------------------------------------ what authenticate() found
\* authenticate() of the current invocation has returned.
AuthReturned ==
    \/ pc \in {"build", "query", "done"}
    \/ pc = "failed" /\ error \in {"build", "list"}

\* authenticate() of the current invocation has raised.
AuthRaised == pc = "failed" /\ error \in {"load", "secret", "refresh", "flow"}

AuthOver == AuthReturned \/ AuthRaised

HadCreds == fileBefore \notin {NoFile, Corrupt}

\* The token file held a currently valid credential.
CaseValid == HadCreds /\ Valid(fileBefore, timeBefore)

\* The token file held an expired credential with a refresh token.
CaseRefreshable ==
    HadCreds /\ Expired(fileBefore, timeBefore) /\ fileBefore.refresh_token

\* No token file, or a credential that is neither valid nor refreshable.
CaseOther ==
    \/ fileBefore = NoFile
    \/ /\ HadCreds
       /\ ~Valid(fileBefore, timeBefore)
       /\ ~(Expired(fileBefore, timeBefore) /\ fileBefore.refresh_token)

\* ----------------------------------------------------------------- claims

\* C1: with an expired-but-refreshable persisted credential, authenticate()
\* refreshes exactly once, starts no interactive flow, and writes the
\* refreshed credential to the token file, so that the token file equals the
\* returned credential.
C1_RefreshIsPersisted ==
    (AuthReturned /\ CaseRefreshable) =>
        /\ refreshCalls = 1
        /\ flowCalls = 0
        /\ tokenWrites = 1
        /\ tokenFile = creds

\* C2: with a currently valid credential in the token file, authenticate()
\* returns that credential unchanged and does nothing else: no refresh, no
\* interactive flow, no read of the client-secret file, no token-file write.
C2_ValidReturnedUntouched ==
    (AuthOver /\ CaseValid) =>
        /\ AuthReturned
        /\ creds = fileBefore
        /\ tokenFile = fileBefore
        /\ refreshCalls = 0
        /\ flowCalls = 0
        /\ secretReads = 0
        /\ tokenWrites = 0

C2_Witness == pc = "build" /\ CaseValid /\ creds.expiry > timeBefore

\* C3: with no token file, an expired credential without refresh token, or an
\* invalid but unexpired credential, authenticate() takes the interactive
\* flow once (one client-secret read, one run of the flow when that file
\* exists), performs no refresh, and on return has written the new credential
\* to the token file.
C3_OtherwiseInteractiveFlow ==
    (AuthOver /\ CaseOther) =>
        /\ refreshCalls = 0
        /\ secretReads = 1
        /\ flowCalls = (IF secretFile THEN 1 ELSE 0)
        /\ AuthReturned =>
              /\ flowCalls = 1
              /\ tokenWrites = 1
              /\ tokenFile = creds
              /\ creds # NoCreds

C3_Witness ==
    /\ pc = "build"
    /\ HadCreds
    /\ Expired(fileBefore, timeBefore)
    /\ ~fileBefore.refresh_token
    /\ flowCalls = 1

\* C4: whatever the token file held, an authenticate() call that returns,
\* returns a credential that is valid at that moment, never None.
C4_ReturnsValidCredential ==
    AuthReturned => (creds # NoCreds /\ Valid(creds, timeBefore))

C4_Witness == pc = "build" /\ fileBefore = NoFile /\ flowCalls = 1

\* C5: a failing step of authenticate() is attempted once and its failure
\* reaches the caller: no step runs twice, a refresh is never followed by the
\* interactive flow in the same call, no credential is returned, no request
\* is sent and the token file is as it was before the call.
C5_FailurePropagates ==
    /\ refreshCalls <= 1 /\ flowCalls <= 1 /\ secretReads <= 1
    /\ ~(refreshCalls = 1 /\ secretReads = 1)
    /\ AuthRaised =>
          /\ creds = NoCreds
          /\ tokenFile = fileBefore
          /\ tokenWrites = 0
          /\ listCalls = 0
          /\ error = "refresh" => (refreshCalls = 1 /\ flowCalls = 0 /\ CaseRefreshable)
          /\ error = "secret" => (secretReads = 1 /\ flowCalls = 0 /\ ~secretFile)
          /\ error = "flow" => (secretReads = 1 /\ flowCalls = 1)

C5_Witness == pc = "failed" /\ error = "refresh" /\ refreshCalls = 1

\* C6: the events-list request has timeMin = start_date followed by
\* T00:00:00Z and timeMax = end_date followed by T23:59:59Z, dates neither
\* altered nor swapped, on calendar 'primary' with singleEvents true and
\* orderBy 'startTime'.
C6_TimeWindow ==
    request # NoRequest =>
        /\ request.timeMin = start_date \o "T00:00:00Z"
        /\ request.timeMax = end_date \o "T23:59:59Z"
        /\ request.calendarId = "primary"
        /\ request.singleEvents = TRUE
        /\ request.orderBy = "startTime"
        /\ (start_date = "2024-01-01" /\ end_date = "2024-01-02") =>
              /\ request.timeMin = "2024-01-01T00:00:00Z"
              /\ request.timeMax = "2024-01-02T23:59:59Z"

C6_Witness ==
    /\ request # NoRequest
    /\ start_date = "2024-01-02"
    /\ end_date = "2024-01-01"

\* C7: each Event has exactly the fields start and summary; start is the
\* record's dateTime when it has one (also when it has a date as well), its
\* date otherwise (None when it has neither); summary is the record's
\* summary, or 'No title' when it has none.
C7_EventShape ==
    response # NoResponse =>
        \A i \in DOMAIN ItemsOf(response) \cap DOMAIN result :
            LET e  == ItemsOf(response)[i]
                ev == result[i]
            IN  /\ DOMAIN ev = {"start", "summary"}
                /\ ev.start = (IF "dateTime" \in DOMAIN e.start THEN e.start.dateTime
                               ELSE IF "date" \in DOMAIN e.start THEN e.start.date
                               ELSE PyNone)
                /\ ev.summary = (IF "summary" \in DOMAIN e THEN e.summary
                                 ELSE "No title")

C7_Witness ==
    /\ pc = "done"
    /\ Len(result) = 1
    /\ DOMAIN response.items[1].start = {"timeZone", "dateTime", "date"}
    /\ "summary" \notin DOMAIN response.items[1]

\* C8: the events-list request is sent only after authenticate() returned and
\* the service was built, never when authenticate() or the build failed, and
\* exactly once in an invocation that reaches it.
C8_OneListCallAfterAuth ==
    /\ listCalls <= 1
    /\ pc \in {"auth", "build", "query"} => listCalls = 0
    /\ (pc = "failed" /\ error # "list") => listCalls = 0
    /\ (pc = "done" \/ (pc = "failed" /\ error = "list")) => listCalls = 1
    /\ listCalls = 1 => (creds # NoCreds /\ request # NoRequest)

C8_Witness == pc = "done" /\ listCalls = 1 /\ Len(result) = MaxItems

\* C9: query_api returns one Event per record of 'items', in the provider's
\* order, and the empty sequence when 'items' is missing or empty.
C9_OneEventPerItem ==
    response # NoResponse =>
        /\ Len(result) = Len(ItemsOf(response))
        /\ \A i \in 1..Len(result) : result[i] = NormalizeEvent(ItemsOf(response)[i])
        /\ "items" \notin DOMAIN response => result = <<>>
        /\ ("items" \in DOMAIN response /\ response.items = <<>>) => result = <<>>

C9_Witness ==
    /\ pc = "done"
    /\ Len(result) = 2
    /\ result[1] # result[2]
    /\ "summary" \notin DOMAIN response.items[1]

\* C10: after an authenticate() call has succeeded, the next authenticate()
\* call, made while the credential it returned has not expired, finds a valid
\* credential in the token file and performs no refresh and no interactive
\* flow.
C10_NextCallUsesCache ==
    [][ (pc = "auth" /\ pc' # "auth" /\ lastCreds # NoCreds /\ Valid(lastCreds, now)) =>
            /\ tokenFile \notin {NoFile, Corrupt}
            /\ Valid(Loaded(tokenFile), now)
            /\ refreshCalls' = 0
            /\ flowCalls' = 0 ]_vars
====
